---- MODULE Spec2Model ----
(***************************************************************************)
(* Model of compliance/dags/data_retention_dag.py: the Airflow DAG         *)
(* 'data_retention_lifecycle'.  One DAG run is modelled (max_active_runs=1)*)
(* over the compliance database: the category tables, the legal_holds      *)
(* table, data_deletion_manifests and compliance_reports.  Every SQL       *)
(* statement is one atomic step that either returns or raises; between two *)
(* statements other sessions may write to a category table and NOW() may   *)
(* advance past a record's retention threshold.                            *)
(***************************************************************************)
EXTENDS Integers, Sequences, FiniteSets, TLC

\* ---------------------------------------------------------------- bounds
\* Largest number of rows the category tables hold together.
MaxRecords == 2
\* Largest number of foreign events (inserts by other sessions, records
\* crossing the retention threshold) during the run.
MaxWrites == 2
\* Largest number of rows of the table followed row by row.
MaxRowIds == 2
\* Largest number of times the anonymizing UPDATE is run on that table.
MaxPasses == 2

\* ------------------------------------------------------- program constants
\* default_args['retries']: a task that raises is run again this many times.
retries == 2

\* The tables of retention_policies that the model follows, in the order of
\* the dict, with their retention period in days.
Categories == <<"session_data", "user_profiles">>

retention_policies == [session_data |-> 30, user_profiles |-> 1095]

\* The tables of anonymization_config among Categories, with their fields.
anonymization_config == [user_profiles |-> <<"email", "first_name", "last_name", "phone", "address">>]

CategorySet == {Categories[k] : k \in 1..Len(Categories)}

\* The tasks of the DAG that are Python callables, in dependency order.
Tasks == <<"identify_expired_data", "check_legal_holds", "anonymize_before_deletion",
           "create_deletion_manifest", "execute_data_deletion",
           "generate_compliance_report", "send_compliance_notification">>

TaskSet == {Tasks[k] : k \in 1..Len(Tasks)}

\* Defect variant of Upstream: execute_deletion_task is wired after
\* anonymize_data_task, beside create_manifest_task instead of after it.
Upstream_ExecutorBesideManifest(t) ==
    CASE t = "identify_expired_data" -> {}
      [] t = "check_legal_holds" -> {"identify_expired_data"}
      [] t = "anonymize_before_deletion" -> {"check_legal_holds"}
      [] t = "create_deletion_manifest" -> {"anonymize_before_deletion"}
      [] t = "execute_data_deletion" -> {"anonymize_before_deletion"}
      [] t = "generate_compliance_report" -> {"execute_data_deletion"}
      [] t = "send_compliance_notification" -> {"generate_compliance_report"}

\* Defect variant of Upstream: generate_report_task is wired after
\* create_manifest_task, beside execute_deletion_task instead of after it.
Upstream_ReportBesideExecutor(t) ==
    CASE t = "identify_expired_data" -> {}
      [] t = "check_legal_holds" -> {"identify_expired_data"}
      [] t = "anonymize_before_deletion" -> {"check_legal_holds"}
      [] t = "create_deletion_manifest" -> {"anonymize_before_deletion"}
      [] t = "execute_data_deletion" -> {"create_deletion_manifest"}
      [] t = "generate_compliance_report" -> {"create_deletion_manifest"}
      [] t = "send_compliance_notification" -> {"generate_compliance_report"}

\* a >> b: the direct upstream tasks of t.
Upstream(t) ==
    CASE t = "identify_expired_data" -> {}
      [] t = "check_legal_holds" -> {"identify_expired_data"}
      [] t = "anonymize_before_deletion" -> {"check_legal_holds"}
      [] t = "create_deletion_manifest" -> {"anonymize_before_deletion"}
      [] t = "execute_data_deletion" -> {"create_deletion_manifest"}
      [] t = "generate_compliance_report" -> {"execute_data_deletion"}
      [] t = "send_compliance_notification" -> {"generate_compliance_report"}

\* The tasks before t on a path of the DAG.
RECURSIVE Ancestors(_)
Ancestors(t) == Upstream(t) \cup UNION {Ancestors(u) : u \in Upstream(t)}

\* The tasks after t on a path of the DAG.
DownstreamOf == [t \in TaskSet |-> {u \in TaskSet : t \in Ancestors(u)}]

Downstream(t) == DownstreamOf[t]

\* ------------------------------------------------------------ dict helpers
\* A Python dict is a function on its key set; iteration follows insertion
\* order, which for every dict of the DAG is the order of Categories.
EmptyDict == [k \in {} |-> {}]

Put(d, k, v) == [x \in (DOMAIN d) \cup {k} |-> IF x = k THEN v ELSE d[x]]

Keys(d) == SelectSeq(Categories, LAMBDA c : c \in DOMAIN d)

RECURSIVE SumOver(_, _)
SumOver(S, f) ==
    IF S = {} THEN 0
    ELSE LET x == CHOOSE y \in S : TRUE IN f[x] + SumOver(S \ {x}, f)

\* ------------------------------------------------------------------ state
VARIABLES
    store,                   \* category table -> rows, counted by class
    legal_holds_table,       \* rows of legal_holds
    data_deletion_manifests, \* rows of data_deletion_manifests; id = index
    compliance_reports,      \* rows of compliance_reports
    xcom,                    \* XCom of the run: key -> pushed value
    ti_state,                \* task -> state of its task instance
    try_number,              \* try of the running task
    pc,                      \* statement the running task is at
    idx,                     \* position of the running task's for loop
    expired_data,            \* local of identify_expired_data
    anonymization_results,   \* local of anonymize_before_deletion
    deletion_results,        \* local of execute_data_deletion
    total_deleted,           \* local of execute_data_deletion
    records_to_delete,       \* local of execute_data_deletion
    scan_log,                \* history: tables whose scan query returned
    scan_errors,             \* history: tables whose scan query raised
    update_log,              \* history: tables an anonymizing UPDATE ran on
    delete_log,              \* history: tables a DELETE statement ran on
    exec_try,                \* history: what the current try of the executor did
    last_raised,             \* history: tasks whose latest try raised
    aged,                    \* history: tables holding a row that crossed the
                             \*  retention threshold since the run started
    writes,                  \* number of foreign events so far
    rowdb                    \* one profiled table row by row, and its clock

vars == <<store, legal_holds_table, data_deletion_manifests, compliance_reports,
          xcom, ti_state, try_number, pc, idx, expired_data,
          anonymization_results, deletion_results, total_deleted,
          records_to_delete, scan_log, scan_errors, update_log, delete_log,
          exec_try, last_raised, aged, writes, rowdb>>

db == <<store, legal_holds_table, data_deletion_manifests, compliance_reports, rowdb>>
locals == <<expired_data, anonymization_results, deletion_results,
            total_deleted, records_to_delete>>
history == <<scan_log, scan_errors, update_log, delete_log, exec_try, last_raised, aged>>
\* The history but for what Succeed and Raise record.
steps == <<scan_log, scan_errors, update_log, delete_log, aged>>

\* ------------------------------------------------------- the category tables
\* A table's rows are counted by class: fresh rows are younger than the
\* table's retention period; expired rows are older and either carry
\* anonymized_at (anon) or not (plain).
Rows(t) == t.fresh + t.plain + t.anon

\* SELECT COUNT(*) FROM {table_name} WHERE created_at < NOW() - INTERVAL ...
CountExpired(t) == t.plain + t.anon

\* UPDATE {table_name} SET ..., anonymized_at = NOW()
\*  WHERE created_at < NOW() - INTERVAL ... AND anonymized_at IS NULL
AnonymizeExpired(t) == [t EXCEPT !.plain = 0, !.anon = t.anon + t.plain]

\* DELETE FROM {table_name} WHERE created_at < NOW() - INTERVAL ...
DeleteExpired(t) == [t EXCEPT !.plain = 0, !.anon = 0]

Tables ==
    {t \in [fresh : 0..MaxRecords, plain : 0..MaxRecords, anon : 0..MaxRecords] :
        Rows(t) <= MaxRecords}

TotalRows(s) == SumOver(DOMAIN s, [c \in DOMAIN s |-> Rows(s[c])])

\* Only tables with an anonymization profile are ever rewritten, so only they
\* can hold rows with anonymized_at set.
InitStores ==
    {s \in [CategorySet -> Tables] :
        /\ TotalRows(s) <= MaxRecords
        /\ \A c \in CategorySet : c \notin DOMAIN anonymization_config => s[c].anon = 0}

\* ------------------------------------------ a profiled table, row by row
\* A row of a table with an anonymization profile: whether created_at is
\* older than the retention period, anonymized_at (0 for NULL, else the time
\* of the statement that set it) and email (0 for the address the user gave,
\* else the time of the statement that generated the address; the other
\* fields of the profile are rewritten together with it).
RowKinds == [expired : BOOLEAN, anonymized_at : 0..1, email : 0..1]

RowTables == UNION {[1..n -> RowKinds] : n \in 0..MaxRowIds}

\* The value of rowdb while no table is followed row by row.
NoRows == [rows |-> <<>>, now |-> 0, runs |-> 0, last |-> <<>>]

\* Defect variant of anonymize_sql: the WHERE clause lacks
\* AND anonymized_at IS NULL.
anonymize_sql_NoMarkerGuard(rows, now) ==
    [k \in 1..Len(rows) |->
        IF rows[k].expired
        THEN [rows[k] EXCEPT !.email = now, !.anonymized_at = now]
        ELSE rows[k]]

\* UPDATE {table_name} SET email = 'anonymized_' || generate_random_uuid()
\*  || '@deleted.local', ..., anonymized_at = NOW()
\*  WHERE created_at < NOW() - INTERVAL ... AND anonymized_at IS NULL
anonymize_sql(rows, now) ==
    [k \in 1..Len(rows) |->
        IF rows[k].expired /\ rows[k].anonymized_at = 0
        THEN [rows[k] EXCEPT !.email = now, !.anonymized_at = now]
        ELSE rows[k]]

\* The rows of a table counted by class.
Classes(rows) ==
    [fresh |-> Cardinality({k \in 1..Len(rows) : ~rows[k].expired}),
     plain |-> Cardinality({k \in 1..Len(rows) :
                              rows[k].expired /\ rows[k].anonymized_at = 0}),
     anon |-> Cardinality({k \in 1..Len(rows) :
                              rows[k].expired /\ rows[k].anonymized_at # 0})]

\* ------------------------------------------------------------- legal_holds
\* The rows legal_holds may hold when the run starts.  A row is active when
\* status = 'ACTIVE' AND (expiration_date IS NULL OR expiration_date > NOW()).
HoldRows ==
    {[table_name |-> "session_data", record_id |-> 101, active |-> TRUE],
     [table_name |-> "user_profiles", record_id |-> 102, active |-> TRUE],
     [table_name |-> "user_profiles", record_id |-> 101, active |-> FALSE]}

InitHolds == SUBSET HoldRows


\* -------------------------------------------------------------- scheduler
Running(t) == ti_state[t] = "running"

RunOver == \A t \in TaskSet : ti_state[t] \in {"success", "failed", "upstream_failed"}

NoTry == [deleted |-> {}, errors |-> {}, counted |-> EmptyDict, recounted |-> EmptyDict]

\* A task instance starts: its callable is entered with fresh locals.
EnterCallable(t) ==
    /\ exec_try' = IF t = "execute_data_deletion" THEN NoTry ELSE exec_try
    /\ pc' = "start"
    /\ idx' = 1
    /\ expired_data' = EmptyDict
    /\ anonymization_results' = EmptyDict
    /\ deletion_results' = EmptyDict
    /\ total_deleted' = 0
    /\ records_to_delete' = 0

LeaveCallable ==
    /\ pc' = "idle"
    /\ idx' = 0
    /\ try_number' = 0
    /\ expired_data' = EmptyDict
    /\ anonymization_results' = EmptyDict
    /\ deletion_results' = EmptyDict
    /\ total_deleted' = 0
    /\ records_to_delete' = 0

\* The callable returns: the task instance succeeds.
Succeed(t) ==
    /\ ti_state' = [ti_state EXCEPT ![t] = "success"]
    /\ last_raised' = last_raised \ {t}
    /\ exec_try' = exec_try
    /\ LeaveCallable

\* An exception leaves the callable: the task is run again while tries are
\* left (default_args['retries']), and fails otherwise; the tasks downstream
\* of a failed task become upstream_failed and are never run.
Raise(t) ==
    /\ last_raised' = last_raised \cup {t}
    /\ IF try_number <= retries
       THEN /\ try_number' = try_number + 1
            /\ ti_state' = ti_state
            /\ EnterCallable(t)
       ELSE /\ ti_state' = [u \in TaskSet |->
                             IF u = t THEN "failed"
                             ELSE IF u \in Downstream(t) THEN "upstream_failed"
                             ELSE ti_state[u]]
            /\ exec_try' = exec_try
            /\ LeaveCallable

\* The default trigger rule: a task runs once all its upstream tasks succeeded.
StartTask(t) ==
    /\ pc = "idle"
    /\ ti_state[t] = "none"
    /\ \A u \in Upstream(t) : ti_state[u] = "success"
    /\ ti_state' = [ti_state EXCEPT ![t] = "running"]
    /\ try_number' = 1
    /\ EnterCallable(t)
    /\ UNCHANGED <<db, xcom, steps, last_raised, writes>>

\* --------------------------------------------------- identify_expired_data
\* One iteration of the loop over retention_policies: the COUNT query of
\* table c returns.  (oldest_record and newest_expired are carried along
\* unread by every later stage and are left out.)
ExpirationRecord(c, count) == [count |-> count, retention_days |-> retention_policies[c]]

ScanResult(found, c, count) ==
    IF count > 0 THEN Put(found, c, ExpirationRecord(c, count)) ELSE found

identify_expired_data_query(c) ==
    /\ Running("identify_expired_data")
    /\ pc = "start"
    /\ idx <= Len(Categories)
    /\ c = Categories[idx]
    /\ expired_data' = ScanResult(expired_data, c, CountExpired(store[c]))
    /\ idx' = idx + 1
    /\ scan_log' = scan_log \cup {c}
    /\ UNCHANGED <<db, xcom, ti_state, try_number, pc, anonymization_results,
                   deletion_results, total_deleted, records_to_delete, scan_errors,
                   update_log, delete_log, exec_try, last_raised, aged, writes>>

\* Defect variant of identify_expired_data_error: the try encloses the loop,
\* so the first failing query ends the scan.
identify_expired_data_error_EndsScan(c) ==
    /\ Running("identify_expired_data")
    /\ pc = "start"
    /\ idx <= Len(Categories)
    /\ c = Categories[idx]
    /\ scan_errors' = scan_errors \cup {c}
    /\ idx' = Len(Categories) + 1
    /\ UNCHANGED <<db, xcom, ti_state, try_number, pc, locals, scan_log, update_log,
                   delete_log, exec_try, last_raised, aged, writes>>

\* The query of table c raises: caught and logged, the loop goes on.
identify_expired_data_error(c) ==
    /\ Running("identify_expired_data")
    /\ pc = "start"
    /\ idx <= Len(Categories)
    /\ c = Categories[idx]
    /\ scan_errors' = scan_errors \cup {c}
    /\ idx' = idx + 1
    /\ UNCHANGED <<db, xcom, ti_state, try_number, pc, locals, scan_log, update_log,
                   delete_log, exec_try, last_raised, aged, writes>>

identify_expired_data_push ==
    /\ Running("identify_expired_data")
    /\ pc = "start"
    /\ idx > Len(Categories)
    /\ xcom' = Put(xcom, "expired_data", expired_data)
    /\ Succeed("identify_expired_data")
    /\ UNCHANGED <<db, steps, writes>>

\* ------------------------------------------------------- check_legal_holds
\* The rows the hold query returns.
ActiveHolds(table) == {h \in table : h.active}

\* legal_holds: table_name -> the holds on it.
GroupHolds(holds) ==
    [t \in {h.table_name : h \in holds} |->
        {h.record_id : h \in {g \in holds : g.table_name = t}}]

\* Defect variant of FilterExpired: the hold mapping is built but not applied.
FilterExpired_Unfiltered(expired, legal_holds) == expired

\* filtered_expired_data: the expired tables no hold names.
FilterExpired(expired, legal_holds) ==
    [t \in (DOMAIN expired) \ (DOMAIN legal_holds) |-> expired[t]]

check_legal_holds ==
    /\ Running("check_legal_holds")
    /\ pc = "start"
    /\ LET legal_holds == GroupHolds(ActiveHolds(legal_holds_table))
           filtered == FilterExpired(xcom["expired_data"], legal_holds)
       IN xcom' = Put(Put(xcom, "filtered_expired_data", filtered),
                      "legal_holds", legal_holds)
    /\ Succeed("check_legal_holds")
    /\ UNCHANGED <<db, steps, writes>>

\* Defect variant of check_legal_holds_error: the exception of the lookup is
\* caught and the task goes on as if no hold existed.
check_legal_holds_error_Swallowed ==
    /\ Running("check_legal_holds")
    /\ pc = "start"
    /\ xcom' = Put(Put(xcom, "filtered_expired_data", xcom["expired_data"]),
                   "legal_holds", EmptyDict)
    /\ ti_state' = [ti_state EXCEPT !["check_legal_holds"] = "success"]
    /\ last_raised' = last_raised \cup {"check_legal_holds"}
    /\ exec_try' = exec_try
    /\ LeaveCallable
    /\ UNCHANGED <<db, steps, writes>>

\* get_records raises: nothing catches it.
check_legal_holds_error ==
    /\ Running("check_legal_holds")
    /\ pc = "start"
    /\ Raise("check_legal_holds")
    /\ UNCHANGED <<db, xcom, steps, writes>>


\* ----------------------------------------------- anonymize_before_deletion
AnonymizationDone(c) == [anonymized |-> TRUE, fields |-> anonymization_config[c]]

AnonymizationFailed == [anonymized |-> FALSE, error |-> "error"]

\* One iteration of the loop over filtered_expired_data for a table with an
\* anonymization profile: the UPDATE returns.
anonymize_before_deletion_update(c) ==
    /\ Running("anonymize_before_deletion")
    /\ pc = "start"
    /\ idx <= Len(Keys(xcom["filtered_expired_data"]))
    /\ c = Keys(xcom["filtered_expired_data"])[idx]
    /\ c \in DOMAIN anonymization_config
    /\ store' = [store EXCEPT ![c] = AnonymizeExpired(store[c])]
    /\ update_log' = update_log \cup {c}
    /\ anonymization_results' = Put(anonymization_results, c, AnonymizationDone(c))
    /\ idx' = idx + 1
    /\ UNCHANGED <<rowdb, legal_holds_table, data_deletion_manifests, compliance_reports,
                   xcom, ti_state, try_number, pc, expired_data, deletion_results,
                   total_deleted, records_to_delete, scan_log, scan_errors, delete_log,
                   exec_try, last_raised, aged, writes>>

\* The UPDATE raises: caught, recorded, the loop goes on.
anonymize_before_deletion_error(c) ==
    /\ Running("anonymize_before_deletion")
    /\ pc = "start"
    /\ idx <= Len(Keys(xcom["filtered_expired_data"]))
    /\ c = Keys(xcom["filtered_expired_data"])[idx]
    /\ c \in DOMAIN anonymization_config
    /\ anonymization_results' = Put(anonymization_results, c, AnonymizationFailed)
    /\ idx' = idx + 1
    /\ UNCHANGED <<db, xcom, ti_state, try_number, pc, expired_data, deletion_results,
                   total_deleted, records_to_delete, history, writes>>

\* A table without a profile is passed over.
anonymize_before_deletion_skip(c) ==
    /\ Running("anonymize_before_deletion")
    /\ pc = "start"
    /\ idx <= Len(Keys(xcom["filtered_expired_data"]))
    /\ c = Keys(xcom["filtered_expired_data"])[idx]
    /\ c \notin DOMAIN anonymization_config
    /\ idx' = idx + 1
    /\ UNCHANGED <<db, xcom, ti_state, try_number, pc, locals, history, writes>>

anonymize_before_deletion_push ==
    /\ Running("anonymize_before_deletion")
    /\ pc = "start"
    /\ idx > Len(Keys(xcom["filtered_expired_data"]))
    /\ xcom' = Put(xcom, "anonymization_results", anonymization_results)
    /\ Succeed("anonymize_before_deletion")
    /\ UNCHANGED <<db, steps, writes>>

\* ------------------------------------------------ create_deletion_manifest
\* The tables the manifest lists: every table of filtered_expired_data.
ManifestTables(filtered) == Keys(filtered)

TableInfo(c, data, anonymization) ==
    [table_name |-> c,
     records_to_delete |-> data.count,
     retention_period_days |-> data.retention_days,
     anonymized_before_deletion |-> c \in DOMAIN anonymization]

BuildManifest(filtered, anonymization) ==
    LET tables == ManifestTables(filtered) IN
    [deletion_reason |-> "DATA_RETENTION_POLICY",
     tables_affected |->
        [k \in 1..Len(tables) |-> TableInfo(tables[k], filtered[tables[k]], anonymization)],
     total_records_to_delete |->
        SumOver({tables[k] : k \in 1..Len(tables)}, [c \in DOMAIN filtered |-> filtered[c].count]),
     anonymization_performed |-> anonymization # EmptyDict,
     legal_holds_checked |-> TRUE]

\* INSERT INTO data_deletion_manifests ... RETURNING id
\* The columns the INSERT leaves NULL (deletion_results, actual_deletions,
\* completed_at) are fields the row does not have yet.
InsertManifest(rows, manifest) ==
    Append(rows, [manifest_data |-> manifest,
                  total_records |-> manifest.total_records_to_delete,
                  status |-> "PENDING"])

create_deletion_manifest ==
    /\ Running("create_deletion_manifest")
    /\ pc = "start"
    /\ LET manifest == BuildManifest(xcom["filtered_expired_data"],
                                     xcom["anonymization_results"])
           rows == InsertManifest(data_deletion_manifests, manifest)
           manifest_id == Len(rows)
       IN /\ data_deletion_manifests' = rows
          /\ xcom' = Put(xcom, "deletion_manifest",
                         manifest @@ [manifest_id |-> manifest_id])
    /\ Succeed("create_deletion_manifest")
    /\ UNCHANGED <<rowdb, store, legal_holds_table, compliance_reports, steps, writes>>

\* Defect variant of create_deletion_manifest_error: the exception of the
\* INSERT is caught and the manifest is handed on without a row behind it.
create_deletion_manifest_error_Swallowed ==
    /\ Running("create_deletion_manifest")
    /\ pc = "start"
    /\ xcom' = Put(xcom, "deletion_manifest",
                   BuildManifest(xcom["filtered_expired_data"],
                                 xcom["anonymization_results"]) @@ [manifest_id |-> 0])
    /\ ti_state' = [ti_state EXCEPT !["create_deletion_manifest"] = "success"]
    /\ last_raised' = last_raised \cup {"create_deletion_manifest"}
    /\ exec_try' = exec_try
    /\ LeaveCallable
    /\ UNCHANGED <<db, steps, writes>>

\* The INSERT raises: nothing catches it.
create_deletion_manifest_error ==
    /\ Running("create_deletion_manifest")
    /\ pc = "start"
    /\ Raise("create_deletion_manifest")
    /\ UNCHANGED <<db, xcom, steps, writes>>


\* --------------------------------------------------- execute_data_deletion
\* Defect variant of ExecutorTables: the executor pulls the key
\* 'expired_data', the mapping before the hold filter.
ExecutorTables_FromScan(filtered) == Keys(xcom["expired_data"])

\* The tables the executor loops over: every table of filtered_expired_data.
ExecutorTables(filtered) == Keys(filtered)

\* Defect variant of VerifiedOutcome: the verifying count is not used.
VerifiedOutcome_Unverified(expected, remaining) ==
    [expected_deletions |-> expected,
     actual_deletions |-> expected,
     success |-> TRUE,
     remaining_records |-> remaining]

\* The outcome recorded after the verifying count.
VerifiedOutcome(expected, remaining) ==
    [expected_deletions |-> expected,
     actual_deletions |-> expected - remaining,
     success |-> remaining = 0,
     remaining_records |-> remaining]

\* The outcome recorded when the first count finds nothing.
NothingToDelete ==
    [expected_deletions |-> 0, actual_deletions |-> 0, success |-> TRUE,
     remaining_records |-> 0]

\* The outcome recorded by the except clause.
DeletionFailed == [success |-> FALSE, error |-> "error"]

AtExecutorTable(c) ==
    /\ Running("execute_data_deletion")
    /\ idx <= Len(ExecutorTables(xcom["filtered_expired_data"]))
    /\ c = ExecutorTables(xcom["filtered_expired_data"])[idx]

\* records_to_delete = get_first(count_sql)[0], and the branch on it.
execute_data_deletion_count(c) ==
    /\ AtExecutorTable(c)
    /\ pc = "start"
    /\ LET n == CountExpired(store[c]) IN
         IF n > 0
         THEN /\ records_to_delete' = n
              /\ pc' = "delete"
              /\ UNCHANGED <<idx, deletion_results>>
         ELSE /\ deletion_results' = Put(deletion_results, c, NothingToDelete)
              /\ idx' = idx + 1
              /\ UNCHANGED <<pc, records_to_delete>>
    /\ exec_try' = [exec_try EXCEPT !.counted = Put(@, c, CountExpired(store[c]))]
    /\ UNCHANGED <<db, xcom, ti_state, try_number, expired_data,
                   anonymization_results, total_deleted, steps, last_raised, writes>>

\* run(delete_sql)
execute_data_deletion_delete(c) ==
    /\ AtExecutorTable(c)
    /\ pc = "delete"
    /\ store' = [store EXCEPT ![c] = DeleteExpired(store[c])]
    /\ delete_log' = delete_log \cup {c}
    /\ exec_try' = [exec_try EXCEPT !.deleted = @ \cup {c}]
    /\ aged' = aged \ {c}
    /\ pc' = "verify"
    /\ UNCHANGED <<rowdb, legal_holds_table, data_deletion_manifests, compliance_reports,
                   xcom, ti_state, try_number, idx, locals, scan_log, scan_errors,
                   update_log, last_raised, writes>>

\* remaining_count = get_first(count_sql)[0], and the outcome of the table.
execute_data_deletion_verify(c) ==
    /\ AtExecutorTable(c)
    /\ pc = "verify"
    /\ LET outcome == VerifiedOutcome(records_to_delete, CountExpired(store[c])) IN
         /\ deletion_results' = Put(deletion_results, c, outcome)
         /\ total_deleted' = total_deleted + outcome.actual_deletions
    /\ exec_try' = [exec_try EXCEPT !.recounted = Put(@, c, CountExpired(store[c]))]
    /\ records_to_delete' = 0
    /\ idx' = idx + 1
    /\ pc' = "start"
    /\ UNCHANGED <<db, xcom, ti_state, try_number, expired_data,
                   anonymization_results, steps, last_raised, writes>>

\* Defect variant of execute_data_deletion_error: the try encloses the loop,
\* so the first failing table ends it.
execute_data_deletion_error_EndsLoop(c) ==
    /\ AtExecutorTable(c)
    /\ pc \in {"start", "delete", "verify"}
    /\ deletion_results' = Put(deletion_results, c, DeletionFailed)
    /\ exec_try' = [exec_try EXCEPT !.errors = @ \cup {c}]
    /\ records_to_delete' = 0
    /\ idx' = Len(ExecutorTables(xcom["filtered_expired_data"])) + 1
    /\ pc' = "start"
    /\ UNCHANGED <<db, xcom, ti_state, try_number, expired_data,
                   anonymization_results, total_deleted, steps, last_raised, writes>>

\* Any of the three statements raises: the except clause records the failure
\* of the table and the loop goes on.
execute_data_deletion_error(c) ==
    /\ AtExecutorTable(c)
    /\ pc \in {"start", "delete", "verify"}
    /\ deletion_results' = Put(deletion_results, c, DeletionFailed)
    /\ exec_try' = [exec_try EXCEPT !.errors = @ \cup {c}]
    /\ records_to_delete' = 0
    /\ idx' = idx + 1
    /\ pc' = "start"
    /\ UNCHANGED <<db, xcom, ti_state, try_number, expired_data,
                   anonymization_results, total_deleted, steps, last_raised, writes>>

\* r.get('success', False)
Success(r) == IF "success" \in DOMAIN r THEN r.success ELSE FALSE

\* Defect variant of ManifestStatus: any() in place of all().
ManifestStatus_Any(results) ==
    IF \E c \in DOMAIN results : Success(results[c]) THEN "COMPLETED" ELSE "PARTIAL"

\* 'COMPLETED' if all(...) else 'PARTIAL'
ManifestStatus(results) ==
    IF \A c \in DOMAIN results : Success(results[c]) THEN "COMPLETED" ELSE "PARTIAL"

\* Defect variant of UpdateManifest: the UPDATE also overwrites total_records
\* with the number of rows actually deleted.
UpdateManifest_AdjustsTotal(rows, id, status, results, actual) ==
    [k \in 1..Len(rows) |->
        IF k = id
        THEN [status |-> status, deletion_results |-> results,
              actual_deletions |-> actual, total_records |-> actual] @@ rows[k]
        ELSE rows[k]]

\* UPDATE data_deletion_manifests SET status, deletion_results,
\*  actual_deletions, completed_at WHERE id = manifest_id
UpdateManifest(rows, id, status, results, actual) ==
    [k \in 1..Len(rows) |->
        IF k = id
        THEN [status |-> status, deletion_results |-> results,
              actual_deletions |-> actual] @@ rows[k]
        ELSE rows[k]]

\* Defect variant of execute_data_deletion_update: the statements after the
\* loop are indented into it, so the manifest is updated and the callable
\* returns at the end of the first iteration.
execute_data_deletion_update_InsideLoop ==
    /\ Running("execute_data_deletion")
    /\ pc = "start"
    /\ idx > 1
    /\ "deletion_manifest" \in DOMAIN xcom
    /\ data_deletion_manifests' =
          UpdateManifest(data_deletion_manifests, xcom["deletion_manifest"].manifest_id,
                         ManifestStatus(deletion_results), deletion_results, total_deleted)
    /\ xcom' = Put(xcom, "deletion_results", deletion_results)
    /\ Succeed("execute_data_deletion")
    /\ UNCHANGED <<rowdb, store, legal_holds_table, compliance_reports, steps, writes>>

execute_data_deletion_update ==
    /\ Running("execute_data_deletion")
    /\ pc = "start"
    /\ idx > Len(ExecutorTables(xcom["filtered_expired_data"]))
    /\ "deletion_manifest" \in DOMAIN xcom
    /\ data_deletion_manifests' =
          UpdateManifest(data_deletion_manifests, xcom["deletion_manifest"].manifest_id,
                         ManifestStatus(deletion_results), deletion_results, total_deleted)
    /\ xcom' = Put(xcom, "deletion_results", deletion_results)
    /\ Succeed("execute_data_deletion")
    /\ UNCHANGED <<rowdb, store, legal_holds_table, compliance_reports, steps, writes>>

\* The UPDATE of the manifest raises (or manifest['manifest_id'] does, the
\* manifest pulled being None): nothing catches it.
execute_data_deletion_update_error ==
    /\ Running("execute_data_deletion")
    /\ pc = "start"
    /\ idx > Len(ExecutorTables(xcom["filtered_expired_data"]))
    /\ Raise("execute_data_deletion")
    /\ UNCHANGED <<db, xcom, steps, writes>>

\* ---------------------------------------------- generate_compliance_report
\* r.get('actual_deletions', 0)
ActualDeletions(r) == IF "actual_deletions" \in DOMAIN r THEN r.actual_deletions ELSE 0

\* Defect variant of ComplianceStatus: an outcome that carries an error and no
\* counts is not looked at.
ComplianceStatus_CountsOnly(results) ==
    IF \A c \in DOMAIN results :
          "remaining_records" \in DOMAIN results[c] => results[c].remaining_records = 0
    THEN "COMPLIANT" ELSE "NEEDS_ATTENTION"

\* 'COMPLIANT' if all(...) else 'NEEDS_ATTENTION'
ComplianceStatus(results) ==
    IF \A c \in DOMAIN results : Success(results[c]) THEN "COMPLIANT" ELSE "NEEDS_ATTENTION"

BuildReport(manifest, results, legal_holds) ==
    [process_summary |->
        [total_tables_processed |-> Cardinality(DOMAIN results),
         total_records_deleted |->
            SumOver(DOMAIN results, [c \in DOMAIN results |-> ActualDeletions(results[c])]),
         successful_deletions |->
            Cardinality({c \in DOMAIN results : Success(results[c])}),
         \* r.get('success', True)
         failed_deletions |->
            Cardinality({c \in DOMAIN results :
                            "success" \in DOMAIN results[c] /\ ~results[c].success})],
     legal_holds_summary |->
        [tables_with_holds |-> Cardinality(DOMAIN legal_holds),
         total_holds |->
            SumOver(DOMAIN legal_holds,
                    [t \in DOMAIN legal_holds |-> Cardinality(legal_holds[t])])],
     compliance_status |-> ComplianceStatus(results),
     manifest_id |-> manifest.manifest_id,
     detailed_results |-> results]

\* INSERT INTO compliance_reports (report_type, report_date, report_data, status)
generate_compliance_report ==
    /\ Running("generate_compliance_report")
    /\ pc = "start"
    /\ LET report == BuildReport(xcom["deletion_manifest"], xcom["deletion_results"],
                                 xcom["legal_holds"])
       IN /\ compliance_reports' =
                Append(compliance_reports,
                       [report_type |-> "DATA_RETENTION", report_data |-> report,
                        status |-> report.compliance_status])
          /\ xcom' = Put(xcom, "report", report)
    /\ Succeed("generate_compliance_report")
    /\ UNCHANGED <<rowdb, store, legal_holds_table, data_deletion_manifests, steps, writes>>

\* The INSERT of the report raises: nothing catches it.
generate_compliance_report_error ==
    /\ Running("generate_compliance_report")
    /\ pc = "start"
    /\ Raise("generate_compliance_report")
    /\ UNCHANGED <<db, xcom, steps, writes>>

\* -------------------------------------------- send_compliance_notification
send_compliance_notification ==
    /\ Running("send_compliance_notification")
    /\ pc = "start"
    /\ LET report == xcom["report"] IN
         xcom' = Put(xcom, "notification_data",
                     [summary |-> report.process_summary,
                      compliance_status |-> report.compliance_status,
                      manifest_id |-> report.manifest_id])
    /\ Succeed("send_compliance_notification")
    /\ UNCHANGED <<db, steps, writes>>

\* ------------------------------------------------------- the other sessions
\* Another session inserts a row into table c whose created_at is already
\* older than the retention period.
foreign_insert(c) ==
    /\ pc # "idle"
    /\ writes < MaxWrites
    /\ TotalRows(store) < MaxRecords
    /\ store' = [store EXCEPT ![c].plain = @ + 1]
    /\ writes' = writes + 1
    /\ UNCHANGED <<rowdb, legal_holds_table, data_deletion_manifests, compliance_reports,
                   xcom, ti_state, try_number, pc, idx, locals, history>>

\* NOW() advances: a row of table c crosses the retention threshold.
threshold_cross(c) ==
    /\ pc # "idle"
    /\ writes < MaxWrites
    /\ store[c].fresh > 0
    /\ store' = [store EXCEPT ![c].fresh = @ - 1, ![c].plain = @ + 1]
    /\ aged' = aged \cup {c}
    /\ writes' = writes + 1
    /\ UNCHANGED <<rowdb, legal_holds_table, data_deletion_manifests, compliance_reports,
                   xcom, ti_state, try_number, pc, idx, locals, scan_log, scan_errors,
                   update_log, delete_log, exec_try, last_raised>>

\* ------------------------------------------------------------ specification
\* No task has run yet.
NotStarted ==
    /\ data_deletion_manifests = <<>>
    /\ compliance_reports = <<>>
    /\ xcom = EmptyDict
    /\ ti_state = [t \in TaskSet |-> "none"]
    /\ try_number = 0
    /\ pc = "idle"
    /\ idx = 0
    /\ expired_data = EmptyDict
    /\ anonymization_results = EmptyDict
    /\ deletion_results = EmptyDict
    /\ total_deleted = 0
    /\ records_to_delete = 0
    /\ scan_log = {}
    /\ scan_errors = {}
    /\ update_log = {}
    /\ delete_log = {}
    /\ exec_try = NoTry
    /\ last_raised = {}
    /\ aged = {}
    /\ writes = 0

Init ==
    /\ store \in InitStores
    /\ legal_holds_table \in InitHolds
    /\ rowdb = NoRows
    /\ NotStarted

Next ==
    \/ \E t \in TaskSet : StartTask(t)
    \/ \E c \in CategorySet : identify_expired_data_query(c)
    \/ \E c \in CategorySet : identify_expired_data_error(c)
    \/ identify_expired_data_push
    \/ check_legal_holds
    \/ check_legal_holds_error
    \/ \E c \in CategorySet : anonymize_before_deletion_update(c)
    \/ \E c \in CategorySet : anonymize_before_deletion_error(c)
    \/ \E c \in CategorySet : anonymize_before_deletion_skip(c)
    \/ anonymize_before_deletion_push
    \/ create_deletion_manifest
    \/ create_deletion_manifest_error
    \/ \E c \in CategorySet : execute_data_deletion_count(c)
    \/ \E c \in CategorySet : execute_data_deletion_delete(c)
    \/ \E c \in CategorySet : execute_data_deletion_verify(c)
    \/ \E c \in CategorySet : execute_data_deletion_error(c)
    \/ execute_data_deletion_update
    \/ execute_data_deletion_update_error
    \/ generate_compliance_report
    \/ generate_compliance_report_error
    \/ send_compliance_notification
    \/ \E c \in CategorySet : foreign_insert(c)
    \/ \E c \in CategorySet : threshold_cross(c)

Spec == Init /\ [][Next]_vars

\* -------------------------------- the anonymizing UPDATE, run and run again
\* postgres_hook.run(sql) of anonymize_before_deletion on the table followed
\* row by row; every statement sees a later NOW() than the one before.
anonymize_rows ==
    /\ rowdb.runs < MaxPasses
    /\ LET rows == anonymize_sql(rowdb.rows, rowdb.now) IN
         rowdb' = [rows |-> rows, now |-> rowdb.now + 1,
                   runs |-> rowdb.runs + 1, last |-> rows]
    /\ UNCHANGED <<store, legal_holds_table, data_deletion_manifests,
                   compliance_reports, xcom, ti_state, try_number, pc, idx, locals,
                   history, writes>>

\* NOW() advances between two runs: row k crosses the retention threshold.
age_row(k) ==
    /\ rowdb.runs < MaxPasses
    /\ k \in 1..Len(rowdb.rows)
    /\ ~rowdb.rows[k].expired
    /\ rowdb' = [rowdb EXCEPT !.rows[k].expired = TRUE]
    /\ UNCHANGED <<store, legal_holds_table, data_deletion_manifests,
                   compliance_reports, xcom, ti_state, try_number, pc, idx, locals,
                   history, writes>>

InitRows ==
    /\ store = [c \in CategorySet |-> [fresh |-> 0, plain |-> 0, anon |-> 0]]
    /\ legal_holds_table = {}
    /\ rowdb \in {[rows |-> t, now |-> 2, runs |-> 0, last |-> <<>>] : t \in RowTables}
    /\ NotStarted

NextRows ==
    \/ anonymize_rows
    \/ \E k \in 1..MaxRowIds : age_row(k)

SpecRows == InitRows /\ [][NextRows]_vars


\* ------------------------------------------------------------------ claims
\* The tables an active hold names when the hold filter looks them up.
HeldTables == {h.table_name : h \in {g \in legal_holds_table : g.active = TRUE}}

Pushed(key) == IF key \in DOMAIN xcom THEN xcom[key] ELSE EmptyDict

\* The tables with a DeletionOutcome, recorded by the running executor or
\* handed on by it.
OutcomeTables == (DOMAIN deletion_results) \cup (DOMAIN Pushed("deletion_results"))

\* The tasks listed after t in the order of the pipeline.
LaterTasks(t) ==
    {Tasks[k] : k \in {j \in 1..Len(Tasks) : \E i \in 1..(j - 1) : Tasks[i] = t}}

\* C1: a table named by an active hold at filter time gets no DELETE and no
\* DeletionOutcome, whatever its expired count; the tables with an outcome
\* or a DELETE are among the scanned expired tables that no hold names.
C1_HeldNeverDeleted ==
    /\ \A c \in HeldTables : c \notin delete_log /\ c \notin OutcomeTables
    /\ OutcomeTables \subseteq (DOMAIN Pushed("expired_data")) \ HeldTables
    /\ delete_log \subseteq (DOMAIN Pushed("expired_data")) \ HeldTables

C1_Witness ==
    /\ ti_state["execute_data_deletion"] = "success"
    /\ delete_log # {}
    /\ \E c \in HeldTables : c \in DOMAIN xcom["expired_data"] /\ CountExpired(store[c]) > 0

\* A DELETE statement runs in this step.
DeleteStep == exec_try'.deleted \ exec_try.deleted # {}

\* C2: no DELETE runs before the manifest of the run is persisted with
\* status PENDING and has its manifest_id; the run never persists a second
\* manifest.
C2_ManifestBeforeDelete ==
    [][ /\ Len(data_deletion_manifests') <= 1
        /\ DeleteStep =>
              /\ Len(data_deletion_manifests) = 1
              /\ data_deletion_manifests[1].status = "PENDING"
              /\ "deletion_manifest" \in DOMAIN xcom
              /\ xcom["deletion_manifest"].manifest_id = 1 ]_vars

C2_Witness ==
    /\ delete_log # {}
    /\ Len(data_deletion_manifests) = 1
    /\ data_deletion_manifests[1].status = "PENDING"

\* The tables whose anonymizing UPDATE failed in this run.
AnonymizationFailures ==
    {c \in DOMAIN Pushed("anonymization_results") :
        ~Pushed("anonymization_results")[c].anonymized}

ManifestEntries ==
    IF "deletion_manifest" \in DOMAIN xcom
    THEN {xcom["deletion_manifest"].tables_affected[k].table_name :
            k \in 1..Len(xcom["deletion_manifest"].tables_affected)}
    ELSE {}

\* C3: a table whose anonymization failed is not in the manifest, gets no
\* DELETE and has no DeletionOutcome.
C3_AnonymizationFailClosed ==
    \A c \in AnonymizationFailures :
        /\ c \notin ManifestEntries
        /\ c \notin delete_log
        /\ c \notin OutcomeTables

\* C4: once the executor has finished, the manifest is COMPLETED if every
\* recorded outcome succeeded (none recorded included) and PARTIAL otherwise.
C4_ManifestStatus ==
    ti_state["execute_data_deletion"] = "success" =>
        LET m == data_deletion_manifests[xcom["deletion_manifest"].manifest_id]
            r == xcom["deletion_results"]
            allSucceeded == \A c \in DOMAIN r : r[c].success
        IN /\ m.deletion_results = r
           /\ allSucceeded => m.status = "COMPLETED"
           /\ ~allSucceeded => m.status = "PARTIAL"

C4_Witness ==
    /\ ti_state["execute_data_deletion"] = "success"
    /\ data_deletion_manifests[1].status = "PARTIAL"
    /\ \E c \in DOMAIN xcom["deletion_results"] : xcom["deletion_results"][c].success
    /\ \E c \in DOMAIN xcom["deletion_results"] : ~xcom["deletion_results"][c].success

\* C5: a persisted report is COMPLIANT exactly when the manifest it names
\* ended COMPLETED, and NEEDS_ATTENTION exactly when it ended PARTIAL.
C5_ReportMirrorsManifest ==
    \A k \in 1..Len(compliance_reports) :
        LET rep == compliance_reports[k]
            m == data_deletion_manifests[rep.report_data.manifest_id]
        IN /\ rep.status = "COMPLIANT" <=> m.status = "COMPLETED"
           /\ rep.status = "NEEDS_ATTENTION" <=> m.status = "PARTIAL"

C5_Witness ==
    /\ Len(compliance_reports) = 1
    /\ compliance_reports[1].status = "NEEDS_ATTENTION"
    /\ \E c \in DOMAIN xcom["deletion_results"] : "error" \in DOMAIN xcom["deletion_results"][c]

\* C6: when the hold lookup raised, with no later try of it returning, no
\* manifest is persisted, no anonymizing UPDATE and no DELETE has run, no
\* report is persisted, and no task after check_legal_holds runs.
C6_HoldLookupFailureAborts ==
    "check_legal_holds" \in last_raised =>
        /\ data_deletion_manifests = <<>>
        /\ update_log = {}
        /\ delete_log = {}
        /\ compliance_reports = <<>>
        /\ \A t \in LaterTasks("check_legal_holds") : ti_state[t] \in {"none", "upstream_failed"}

C6_Witness ==
    /\ ti_state["check_legal_holds"] = "failed"
    /\ RunOver
    /\ \E c \in DOMAIN xcom["expired_data"] :
          c \in DOMAIN anonymization_config /\ store[c].plain > 0

\* C7: when the INSERT of the manifest raised, with no later try of it
\* returning, no DELETE has run and the executor does not run.
C7_ManifestFailureAborts ==
    "create_deletion_manifest" \in last_raised =>
        /\ delete_log = {}
        /\ data_deletion_manifests = <<>>
        /\ \A t \in LaterTasks("create_deletion_manifest") :
              ti_state[t] \in {"none", "upstream_failed"}

C7_Witness ==
    /\ ti_state["create_deletion_manifest"] = "failed"
    /\ RunOver
    /\ \E c \in DOMAIN xcom["filtered_expired_data"] : CountExpired(store[c]) > 0

\* C8: a scan query that raises for a table leaves the scan going: by the end
\* of the scan every table was queried; the failed table is not in the
\* expiration mapping, gets no DELETE and has no DeletionOutcome.
C8_ScanErrorIsolated ==
    /\ \A c \in scan_errors :
          /\ c \notin DOMAIN expired_data
          /\ c \notin DOMAIN Pushed("expired_data")
          /\ c \notin delete_log
          /\ c \notin OutcomeTables
    /\ ti_state["identify_expired_data"] = "success" =>
          scan_log \cup scan_errors = CategorySet

C8_Witness ==
    /\ scan_errors = {Categories[1]}
    /\ CountExpired(store[Categories[1]]) > 0
    /\ Categories[2] \in delete_log
    /\ ti_state["execute_data_deletion"] = "success"

\* C9: a table whose deletion raises gets the outcome {success false, error};
\* the loop goes on, so every table before the loop position has its outcome
\* and the finished executor hands on one outcome per table it was given.
C9_DeletionErrorIsolated ==
    /\ Running("execute_data_deletion") =>
          /\ DOMAIN deletion_results =
                {ExecutorTables(xcom["filtered_expired_data"])[k] : k \in 1..(idx - 1)}
          /\ \A c \in exec_try.errors :
                deletion_results[c] = [success |-> FALSE, error |-> "error"]
    /\ ti_state["execute_data_deletion"] = "success" =>
          /\ DOMAIN xcom["deletion_results"] = DOMAIN xcom["filtered_expired_data"]
          /\ \A c \in exec_try.errors :
                xcom["deletion_results"][c] = [success |-> FALSE, error |-> "error"]

C9_Witness ==
    /\ ti_state["execute_data_deletion"] = "success"
    /\ exec_try.errors = {Categories[1]}
    /\ Categories[2] \in exec_try.deleted
    /\ xcom["deletion_results"][Categories[2]].success

\* An outcome that carries counts agrees with what the executor saw and did
\* for table c: expected is the first count, remaining the count after the
\* DELETE.
CountsConsistent(r, c) ==
    "expected_deletions" \in DOMAIN r =>
        /\ r.expected_deletions = exec_try.counted[c]
        /\ r.actual_deletions = r.expected_deletions - r.remaining_records
        /\ r.success <=> r.remaining_records = 0
        /\ r.expected_deletions > 0 <=> c \in exec_try.deleted
        /\ r.expected_deletions > 0 => r.remaining_records = exec_try.recounted[c]
        /\ r.expected_deletions = 0 =>
              r.actual_deletions = 0 /\ r.remaining_records = 0 /\ r.success

Unconverged(results) ==
    \E c \in DOMAIN results :
        "remaining_records" \in DOMAIN results[c] /\ results[c].remaining_records > 0

\* C10: an outcome with counts has actual = expected - remaining and
\* success iff remaining = 0; the DELETE ran iff expected > 0, and expected 0
\* gives {0, 0, true, 0}; rows remaining after the DELETE make the manifest
\* PARTIAL and the report NEEDS_ATTENTION.
C10_DeletionAccounting ==
    /\ \A c \in DOMAIN deletion_results : CountsConsistent(deletion_results[c], c)
    /\ pc \in {"delete", "verify"} => records_to_delete > 0
    /\ ti_state["execute_data_deletion"] = "success" =>
          /\ \A c \in DOMAIN xcom["deletion_results"] :
                CountsConsistent(xcom["deletion_results"][c], c)
          /\ Unconverged(xcom["deletion_results"]) =>
                /\ data_deletion_manifests[1].status = "PARTIAL"
                /\ \A k \in 1..Len(compliance_reports) :
                      compliance_reports[k].status = "NEEDS_ATTENTION"

C10_Witness ==
    /\ Len(compliance_reports) = 1
    /\ compliance_reports[1].status = "NEEDS_ATTENTION"
    /\ data_deletion_manifests[1].status = "PARTIAL"
    /\ \E c \in DOMAIN xcom["deletion_results"] :
          xcom["deletion_results"][c] =
             [expected_deletions |-> 2, actual_deletions |-> 1, success |-> FALSE,
              remaining_records |-> 1]

\* The expired count the scan found for table c.
ScannedCount(c) == Pushed("expired_data")[c].count

\* The totals of the persisted manifest are those of the scan: each entry's
\* records_to_delete is the scanned count of its table, and both the
\* manifest's total_records_to_delete and the row's total_records are their
\* sum.
ManifestTotalsFromScan ==
    \A k \in 1..Len(data_deletion_manifests) :
        LET m == data_deletion_manifests[k]
            entries == m.manifest_data.tables_affected
            tables == {entries[j].table_name : j \in 1..Len(entries)}
        IN /\ tables \subseteq DOMAIN Pushed("expired_data")
           /\ \A j \in 1..Len(entries) :
                 entries[j].records_to_delete = ScannedCount(entries[j].table_name)
           /\ m.manifest_data.total_records_to_delete =
                 SumOver(tables, [c \in tables |-> ScannedCount(c)])
           /\ m.total_records = m.manifest_data.total_records_to_delete

\* C11: from its creation on the manifest's total_records_to_delete and its
\* per-table records_to_delete are the scanned expired counts of its tables
\* and their sum; no later step changes them, the update after execution
\* included, which writes status, deletion_results and actual_deletions only.
C11_ManifestTotalsFixed ==
    [][ /\ ManifestTotalsFromScan'
        /\ \A k \in 1..Len(data_deletion_manifests) :
              /\ Len(data_deletion_manifests') >= k
              /\ data_deletion_manifests'[k].manifest_data =
                    data_deletion_manifests[k].manifest_data
              /\ data_deletion_manifests'[k].total_records =
                    data_deletion_manifests[k].total_records ]_vars

C11_Witness ==
    /\ ti_state["execute_data_deletion"] = "success"
    /\ Len(data_deletion_manifests) = 1
    /\ data_deletion_manifests[1].status = "PARTIAL"
    /\ data_deletion_manifests[1].total_records = 2
    /\ data_deletion_manifests[1].actual_deletions = 1

\* The tables the running executor is given to attempt.
AttemptedTables ==
    {ExecutorTables(Pushed("filtered_expired_data"))[k] :
        k \in 1..Len(ExecutorTables(Pushed("filtered_expired_data")))}

\* C12: a manifest row is written once after its creation: by the step that
\* takes its status from PENDING to COMPLETED or PARTIAL, taken when the
\* executor holds an outcome for every table it attempts; a row that left
\* PENDING is not written again, and no row is removed.
C12_SingleFinalUpdate ==
    [][ /\ Len(data_deletion_manifests') >= Len(data_deletion_manifests)
        /\ \A k \in 1..Len(data_deletion_manifests) :
              data_deletion_manifests'[k] # data_deletion_manifests[k] =>
                 /\ data_deletion_manifests[k].status = "PENDING"
                 /\ data_deletion_manifests'[k].status \in {"COMPLETED", "PARTIAL"}
                 /\ Running("execute_data_deletion")
                 /\ DOMAIN deletion_results = AttemptedTables
                 /\ data_deletion_manifests'[k].deletion_results = deletion_results ]_vars

C12_Witness ==
    /\ ti_state["execute_data_deletion"] = "success"
    /\ Len(data_deletion_manifests) = 1
    /\ data_deletion_manifests[1].status = "COMPLETED"
    /\ DOMAIN data_deletion_manifests[1].deletion_results = CategorySet
    /\ exec_try.deleted = CategorySet

\* The WHERE clause of the anonymizing UPDATE.
Eligible(r) == r.expired /\ r.anonymized_at = 0

\* C13: a run of the anonymizing UPDATE rewrites the rows past retention
\* whose anonymized_at is unset and no other row, and every rewrite sets
\* anonymized_at; run again on the table as the run before left it, it
\* changes no field of any row.
C13_AnonymizerIdempotent ==
    [][ rowdb'.runs > rowdb.runs =>
          /\ Len(rowdb'.rows) = Len(rowdb.rows)
          /\ \A k \in 1..Len(rowdb.rows) :
                /\ rowdb'.rows[k] # rowdb.rows[k] => Eligible(rowdb.rows[k])
                /\ Eligible(rowdb.rows[k]) =>
                      /\ rowdb'.rows[k].anonymized_at # 0
                      /\ rowdb'.rows[k].email # rowdb.rows[k].email
                /\ ~Eligible(rowdb'.rows[k])
          /\ Classes(rowdb'.rows) = AnonymizeExpired(Classes(rowdb.rows))
          /\ (rowdb.runs > 0 /\ rowdb.rows = rowdb.last) =>
                rowdb'.rows = rowdb.rows ]_vars

C13_Witness ==
    /\ rowdb.runs = 2
    /\ rowdb.rows = rowdb.last
    /\ \E k \in 1..Len(rowdb.rows) : rowdb.rows[k].anonymized_at = 2
    /\ \E k \in 1..Len(rowdb.rows) :
          rowdb.rows[k].expired /\ rowdb.rows[k].anonymized_at = 1
    /\ \A k \in 1..Len(rowdb.rows) : rowdb.rows[k].anonymized_at # 3

\* C14: a run that is over either has persisted one report, COMPLIANT or
\* NEEDS_ATTENTION, and its manifest, or has persisted no report, no
\* manifest and run no DELETE.
C14_TwoEndStates ==
    RunOver =>
        \/ /\ Len(compliance_reports) = 1
           /\ compliance_reports[1].status \in {"COMPLIANT", "NEEDS_ATTENTION"}
           /\ Len(data_deletion_manifests) = 1
        \/ /\ compliance_reports = <<>>
           /\ data_deletion_manifests = <<>>
           /\ delete_log = {}

\* The tables listed by the manifest rows persisted so far.
PersistedEntries ==
    UNION {{data_deletion_manifests[k].manifest_data.tables_affected[j].table_name :
              j \in 1..Len(data_deletion_manifests[k].manifest_data.tables_affected)} :
           k \in 1..Len(data_deletion_manifests)}

\* C15: the run persists at most one manifest; every table a DELETE ran on
\* or an outcome is recorded for is an entry of it, and the tables the
\* executor attempts are exactly its entries, under the manifest_id the
\* executor was handed.
C15_DeletionsTraceable ==
    /\ Len(data_deletion_manifests) <= 1
    /\ delete_log \cup OutcomeTables \subseteq PersistedEntries
    /\ ti_state["execute_data_deletion"] \in {"running", "success", "failed"} =>
          /\ Len(data_deletion_manifests) = 1
          /\ xcom["deletion_manifest"].manifest_id = 1
          /\ ManifestEntries = PersistedEntries
          /\ AttemptedTables = PersistedEntries
    /\ ti_state["execute_data_deletion"] = "success" =>
          /\ DOMAIN xcom["deletion_results"] = PersistedEntries
          /\ DOMAIN data_deletion_manifests[1].deletion_results = PersistedEntries

C15_Witness ==
    /\ ti_state["execute_data_deletion"] = "success"
    /\ PersistedEntries = {"user_profiles"}
    /\ delete_log = {"user_profiles"}
    /\ "session_data" \in HeldTables
    /\ "session_data" \in DOMAIN xcom["expired_data"]

\* C16: a DELETE on a table with an anonymization profile removes no row
\* whose anonymized_at is unset.  It is stated for the tables whose
\* anonymizing UPDATE returned in this run, the case that does not rest on
\* what C3 is about.
C16_DeletedRowsAnonymized ==
    [][ \A c \in (DOMAIN anonymization_config) \ AnonymizationFailures :
           c \in exec_try'.deleted \ exec_try.deleted => store[c].plain = 0 ]_vars

\* The tables a statement of the run evaluates its WHERE clause on in this
\* step: the scanner's COUNT, the anonymizer's UPDATE, and the executor's
\* COUNT, DELETE and second COUNT.
StatementTables ==
    (scan_log' \ scan_log) \cup (update_log' \ update_log)
        \cup ((DOMAIN exec_try'.counted) \ (DOMAIN exec_try.counted))
        \cup (exec_try'.deleted \ exec_try.deleted)
        \cup ((DOMAIN exec_try'.recounted) \ (DOMAIN exec_try.recounted))

\* C17: every statement of the run decides 'expired' against the time the
\* run started: none counts, rewrites or deletes a row that crossed its
\* retention threshold only after the run had started.
C17_SingleRunStartNow ==
    [][ \A c \in StatementTables : c \notin aged ]_vars

\* Task t has been started in this run.
Started(t) == ti_state[t] \in {"running", "success", "failed"}

\* The tasks listed before t in the order of the pipeline.
EarlierTasks(t) ==
    {Tasks[k] : k \in {j \in 1..Len(Tasks) : \E i \in (j + 1)..Len(Tasks) : Tasks[i] = t}}

\* C18: a stage is started only after every stage before it has finished
\* for all tables: the hold filter after every table was scanned (counted
\* or failed), manifest creation after the anonymization of every filtered
\* table with a profile is resolved (done or failed), any DELETE after the
\* manifest is persisted, the report after the manifest's final update.
C18_StrictStageOrder ==
    /\ \A t \in TaskSet : Started(t) => \A u \in EarlierTasks(t) : ti_state[u] = "success"
    /\ Started("check_legal_holds") =>
          /\ scan_log \cup scan_errors = CategorySet
          /\ "expired_data" \in DOMAIN xcom
    /\ Started("create_deletion_manifest") =>
          /\ "anonymization_results" \in DOMAIN xcom
          /\ \A c \in DOMAIN xcom["filtered_expired_data"] :
                c \in DOMAIN anonymization_config =>
                   c \in DOMAIN xcom["anonymization_results"]
    /\ data_deletion_manifests # <<>> => Started("create_deletion_manifest")
    /\ delete_log # {} =>
          /\ Started("execute_data_deletion")
          /\ Len(data_deletion_manifests) = 1
    /\ Started("generate_compliance_report") =>
          data_deletion_manifests[1].status \in {"COMPLETED", "PARTIAL"}
    /\ compliance_reports # <<>> => Started("generate_compliance_report")

C18_Witness ==
    /\ ti_state["send_compliance_notification"] = "success"
    /\ scan_log = CategorySet
    /\ delete_log = CategorySet
    /\ update_log = DOMAIN anonymization_config

\* The anonymizing UPDATE of table c returned in this run.
RewriteSucceeded(c) ==
    /\ c \in DOMAIN Pushed("anonymization_results")
    /\ Pushed("anonymization_results")[c].anonymized

\* C19: an entry of the persisted manifest has anonymized_before_deletion
\* true exactly when its table has an anonymization profile and the
\* table's rewrite succeeded in this run: it is false for a table without
\* a profile and for a table whose anonymization failed.
C19_AnonymizedFlag ==
    \A k \in 1..Len(data_deletion_manifests) :
        LET entries == data_deletion_manifests[k].manifest_data.tables_affected IN
        \A j \in 1..Len(entries) :
            entries[j].anonymized_before_deletion <=>
                /\ entries[j].table_name \in DOMAIN anonymization_config
                /\ RewriteSucceeded(entries[j].table_name)

\* The counts of an outcome are in range.
CountsInRange(r) ==
    "expected_deletions" \in DOMAIN r =>
        /\ 0 <= r.actual_deletions
        /\ r.actual_deletions <= r.expected_deletions
        /\ r.remaining_records >= 0

SumOfActual(results) ==
    SumOver(DOMAIN results, [c \in DOMAIN results |-> ActualDeletions(results[c])])

\* C20: every outcome with counts has 0 <= actual_deletions <=
\* expected_deletions and remaining_records >= 0, whatever other sessions
\* write between the executor's count, DELETE and second count; the total
\* persisted with the manifest and the report's total_records_deleted are
\* not negative and are the sum of actual_deletions over the outcomes.
C20_CountsInRange ==
    /\ \A c \in DOMAIN deletion_results : CountsInRange(deletion_results[c])
    /\ ti_state["execute_data_deletion"] = "success" =>
          /\ \A c \in DOMAIN xcom["deletion_results"] :
                CountsInRange(xcom["deletion_results"][c])
          /\ data_deletion_manifests[1].actual_deletions >= 0
          /\ data_deletion_manifests[1].actual_deletions =
                SumOfActual(xcom["deletion_results"])
    /\ \A k \in 1..Len(compliance_reports) :
          LET summary == compliance_reports[k].report_data.process_summary IN
          /\ summary.total_records_deleted >= 0
          /\ summary.total_records_deleted = SumOfActual(xcom["deletion_results"])

====
